---- MODULE Spec2Model ----
(***************************************************************************)
(* Model of the ShipRelay proxy router (src/unnamed/part_000, the revision *)
(* of lines 238-559 with the GraphQL cancellation pipeline, and the REST   *)
(* pipeline of lines 98-189 as the alternative revision).                  *)
(*                                                                         *)
(* State: the module-level tokenCache, the wall clock read by Date.now(),  *)
(* the process environment, and one record per in-flight HTTP request      *)
(* holding the handler's local variables and its position (the await it is *)
(* suspended on).  Every await of an upstream fetch is one step of the     *)
(* model: the action fired when the upstream answers runs the handler up   *)
(* to its next await or to its response.                                   *)
(*                                                                         *)
(* Spec handles requests one after another (a request arrives when no      *)
(* other is in flight); the handlers' locals are per request and the only  *)
(* shared state is tokenCache, so the properties of a single request are   *)
(* checked there.  The hold and release endpoints are not part of the      *)
(* sources and are modelled from the specification.                        *)
(***************************************************************************)
EXTENDS Integers, Sequences, FiniteSets, TLC

(* ------------------------------ bounds -------------------------------- *)
\* number of request slots handled concurrently by the event loop
NumReqs == 2
\* the clock advances in steps of TickStep milliseconds, up to MaxTime
TickStep == 1500000
MaxTime == 3000000
\* longest list of fulfillments / fulfillment orders an order carries
MaxFulfillments == 2
\* longest shipment list the upstream search returns
MaxShipments == 2
\* most shipments a search hands to the widget
MaxCards == 2

Reqs == 1..NumReqs

(* --------------------------- JavaScript values ------------------------ *)
\* JS values are tagged records so that null, undefined, strings and
\* numbers stay distinct; strings are sequences of one-character strings.
Null == [t |-> "null"]
Undefined == [t |-> "undefined"]
Str(s) == [t |-> "string", s |-> s]
Num(n) == [t |-> "number", n |-> n]

\* ToBoolean as used by `&&`, `||`, `!` and `?.`
ToBoolean(v) ==
    CASE v.t = "null" -> FALSE
      [] v.t = "undefined" -> FALSE
      [] v.t = "string" -> v.s # <<>>
      [] v.t = "number" -> v.n # 0
      [] OTHER -> TRUE

IsWhitespace(c) == c \in {" ", "\t"}

RECURSIVE TrimStart(_)
TrimStart(s) ==
    IF s # <<>> /\ IsWhitespace(Head(s)) THEN TrimStart(Tail(s)) ELSE s

RECURSIVE TrimEnd(_)
TrimEnd(s) ==
    IF s # <<>> /\ IsWhitespace(s[Len(s)])
    THEN TrimEnd(SubSeq(s, 1, Len(s) - 1))
    ELSE s

\* String.prototype.trim
Trim(s) == TrimEnd(TrimStart(s))

\* String.prototype.replace(pattern, replacement) with a string pattern of
\* one character: only the first occurrence is replaced.
RECURSIVE ReplaceFirst(_, _, _)
ReplaceFirst(s, c, by) ==
    IF s = <<>> THEN <<>>
    ELSE IF Head(s) = c THEN by \o Tail(s)
    ELSE <<Head(s)>> \o ReplaceFirst(Tail(s), c, by)

\* response.ok of the fetch API
Ok(status) == status >= 200 /\ status <= 299

(* ------------------------------ constants ----------------------------- *)
\* 50 * 60 * 1000 ms, the lifetime given to a cached token
TokenLifetime == 50 * 60 * 1000

\* access_token values a login success body can carry (undefined: the
\* field is missing from the body)
AccessTokens == {Str(<<"A">>), Str(<<"B">>), Undefined}

\* HTTP statuses the upstream APIs answer with
UpstreamStatuses == {200, 404, 503}
LoginFailStatuses == {401, 503}
\* bodies of a failed login, as text
LoginFailTexts == {<<>>, <<"d">>}

\* response bodies of the hold / release / archive calls, as text
BodyTexts == {<<"{", "}">>, <<>>, <<"<", "h", ">">>}

\* JSON.parse on the body texts above: the parsed value, or "SyntaxError"
JSONParse(text) ==
    CASE text = <<"{", "}">> -> [ok |-> TRUE, value |-> [t |-> "object"]]
      [] text = <<"n", "u", "l", "l">> -> [ok |-> TRUE, value |-> Null]
      [] text = <<"[", "]">> -> [ok |-> TRUE, value |-> [t |-> "array", items |-> <<>>]]
      [] OTHER -> [ok |-> FALSE, value |-> Undefined]

(* -------------------------------- state ------------------------------- *)
VARIABLES
    tokenCache,   \* the module-level { token, expiry } slot
    now,          \* the value Date.now() returns
    env,          \* process.env: the commerce-platform credentials
    revision,     \* which cancelShopifyFulfillment revision is deployed
    req,          \* per request slot: the handler's locals and position
    shipments,    \* the widget: the shipments of the last search
    cards         \* the widget: the cards rendered for them so far

vars == <<tokenCache, now, env, revision, req, shipments, cards>>

\* an upstream call made by a request: its operation, its argument and the
\* way it ended ("pending" while the handler is suspended on it)
Call(op, arg) == [op |-> op, arg |-> arg, result |-> "pending"]

NoResponse == [status |-> 0, text |-> <<>>]
NoRes == [status |-> 0]

\* a free request slot
IdleReq ==
    [kind |-> "none", pc |-> "idle", input |-> Undefined, token |-> Undefined,
     calls |-> <<>>, shipmentData |-> Null, response |-> NoResponse,
     order |-> <<>>, fulfillmentOrders |-> <<>>, i |-> 0, res |-> NoRes,
     loginResponse |-> Undefined, err |-> Undefined]

\* the last call of a request ends with `result`
Settle(calls, result) ==
    [calls EXCEPT ![Len(calls)] = [@ EXCEPT !.result = result]]

\* res.status(status).json(body): the handler's single response
Respond(r, calls, status, body) ==
    req' = [req EXCEPT ![r] = [@ EXCEPT !.pc = "done", !.calls = calls,
                                        !.res = [status |-> status, body |-> body]]]

(* --------------------------- getShipRelayToken ------------------------ *)
\* the cache test of getShipRelayToken
CacheValid ==
    /\ ToBoolean(tokenCache.token)
    /\ ToBoolean(tokenCache.expiry)
    /\ now < tokenCache.expiry.n

\* the operation a handler issues once it holds a token
FirstCall(kind) ==
    CASE kind = "search" -> "search"
      [] kind = "product" -> "product"
      [] kind = "archive" -> "shipment"
      [] kind = "hold" -> "hold"
      [] kind = "release" -> "release"

\* the argument of that call: the search sends order_ref.trim()
FirstArg(kind, input) ==
    IF kind = "search" THEN Str(Trim(input.s)) ELSE input

\* A handler reaches `await getShipRelayToken()`: with a valid cache the
\* token is returned and the handler's first upstream call is issued; else
\* the login call is issued and the handler is suspended on it.
MutEnterSharesLogin(r, kind, input) ==
    /\ IF CacheValid
       THEN req' = [req EXCEPT ![r] = [IdleReq EXCEPT !.kind = kind, !.input = input,
                     !.token = tokenCache.token, !.pc = FirstCall(kind),
                     !.calls = <<Call(FirstCall(kind), FirstArg(kind, input))>>]]
       ELSE req' = [req EXCEPT ![r] = [IdleReq EXCEPT !.kind = kind, !.input = input,
                     !.pc = "login",
                     !.calls = IF \E q \in Reqs : req[q].pc = "login"
                               THEN <<[Call("login", Undefined) EXCEPT !.result = "shared"]>>
                               ELSE <<Call("login", Undefined)>>]]
    /\ UNCHANGED <<tokenCache, now, env, revision, shipments, cards>>

MutEnterAlwaysLogin(r, kind, input) ==
    /\ req' = [req EXCEPT ![r] = [IdleReq EXCEPT !.kind = kind, !.input = input,
                !.pc = "login", !.calls = <<Call("login", Undefined)>>]]
    /\ UNCHANGED <<tokenCache, now, env, revision, shipments, cards>>

Enter(r, kind, input) ==
    /\ IF CacheValid
       THEN req' = [req EXCEPT ![r] = [IdleReq EXCEPT !.kind = kind, !.input = input,
                     !.token = tokenCache.token, !.pc = FirstCall(kind),
                     !.calls = <<Call(FirstCall(kind), FirstArg(kind, input))>>]]
       ELSE req' = [req EXCEPT ![r] = [IdleReq EXCEPT !.kind = kind, !.input = input,
                     !.pc = "login", !.calls = <<Call("login", Undefined)>>]]
    /\ UNCHANGED <<tokenCache, now, env, revision, shipments, cards>>

\* the body of the handler's outer catch, per endpoint
CatchBody(kind, err) ==
    CASE kind = "search" -> [error |-> "Failed to fetch shipment", details |-> err]
      [] kind = "product" -> [error |-> "Failed to fetch product", details |-> err]
      [] kind = "archive" -> [error |-> "Failed to archive shipment"]
      [] OTHER -> [error |-> "Failed to update shipment"]

\* the handler's outer catch (err): it answers 500 with that body
Catch(r, calls, err) ==
    req' = [req EXCEPT ![r] = [@ EXCEPT !.pc = "done", !.calls = calls, !.err = err,
                !.res = [status |-> 500, body |-> CatchBody(req[r].kind, err)]]]

\* new Error(`Failed to login to ShipRelay: ${response.status} - ${errorText}`)
LoginError(status, errorText) ==
    [message |-> "Failed to login to ShipRelay", status |-> status,
     errorText |-> errorText]
FetchError == [message |-> "request failed"]
JsonError == [message |-> "invalid json response body"]

\* the login call answers with a success status and a JSON body: the
\* token is cached with expiry = Date.now() + 50 minutes and returned, and
\* the handler issues its first upstream call
MutLoginSucceedsTornWrite(r, tok) ==
    /\ req[r].pc = "login"
    /\ tokenCache' = [token |-> tok,
                       expiry |-> IF tokenCache.expiry.t = "number"
                                  THEN tokenCache.expiry
                                  ELSE Num(now + TokenLifetime)]
    /\ req' = [req EXCEPT ![r] = [@ EXCEPT !.token = tok, !.pc = FirstCall(req[r].kind),
                !.loginResponse = [status |-> 200, body |-> [access_token |-> tok]],
                !.calls = Append(Settle(req[r].calls, "ok"),
                                 Call(FirstCall(req[r].kind),
                                      FirstArg(req[r].kind, req[r].input)))]]
    /\ UNCHANGED <<now, env, revision, shipments, cards>>

MutLoginSucceedsNoStore(r, tok) ==
    /\ req[r].pc = "login"
    /\ UNCHANGED tokenCache
    /\ req' = [req EXCEPT ![r] = [@ EXCEPT !.token = tok, !.pc = FirstCall(req[r].kind),
                !.loginResponse = [status |-> 200, body |-> [access_token |-> tok]],
                !.calls = Append(Settle(req[r].calls, "ok"),
                                 Call(FirstCall(req[r].kind),
                                      FirstArg(req[r].kind, req[r].input)))]]
    /\ UNCHANGED <<now, env, revision, shipments, cards>>

LoginSucceeds(r, tok) ==
    /\ req[r].pc = "login"
    /\ tokenCache' = [token |-> tok, expiry |-> Num(now + TokenLifetime)]
    /\ req' = [req EXCEPT ![r] = [@ EXCEPT !.token = tok, !.pc = FirstCall(req[r].kind),
                !.loginResponse = [status |-> 200, body |-> [access_token |-> tok]],
                !.calls = Append(Settle(req[r].calls, "ok"),
                                 Call(FirstCall(req[r].kind),
                                      FirstArg(req[r].kind, req[r].input)))]]
    /\ UNCHANGED <<now, env, revision, shipments, cards>>

\* the login call answers with a non-success status: getShipRelayToken
\* reads the body as text and throws, the handler's catch responds 500
MutLoginFailsGoesOn(r, status, errorText) ==
    /\ req[r].pc = "login"
    /\ req' = [req EXCEPT ![r] = [@ EXCEPT !.pc = FirstCall(req[r].kind),
                !.loginResponse = [status |-> status, body |-> errorText],
                !.calls = Append(Settle(req[r].calls, "http_error"),
                                 Call(FirstCall(req[r].kind),
                                      FirstArg(req[r].kind, req[r].input)))]]
    /\ UNCHANGED <<tokenCache, now, env, revision, shipments, cards>>

LoginFails(r, status, errorText) ==
    /\ req[r].pc = "login"
    /\ req' = [req EXCEPT ![r] = [@ EXCEPT !.pc = "done",
                !.loginResponse = [status |-> status, body |-> errorText],
                !.calls = Settle(req[r].calls, "http_error"),
                !.err = LoginError(status, errorText),
                !.res = [status |-> 500,
                         body |-> CatchBody(req[r].kind, LoginError(status, errorText))]]]
    /\ UNCHANGED <<tokenCache, now, env, revision, shipments, cards>>

\* the login fetch rejects, or its success body is not JSON
MutLoginThrowsUnanswered(r, err) ==
    /\ req[r].pc = "login"
    /\ req' = [req EXCEPT ![r] = [@ EXCEPT !.pc = "hung", !.err = err,
                !.calls = Settle(req[r].calls, "throw")]]
    /\ UNCHANGED <<tokenCache, now, env, revision, shipments, cards>>

LoginThrows(r, err) ==
    /\ req[r].pc = "login"
    /\ Catch(r, Settle(req[r].calls, "throw"), err)
    /\ UNCHANGED <<tokenCache, now, env, revision, shipments, cards>>

(* ------------------------------ /shipment/ping ------------------------ *)
Ping(r) ==
    /\ req[r].pc = "idle"
    /\ req' = [req EXCEPT ![r] = [IdleReq EXCEPT !.kind = "ping", !.pc = "done",
                !.res = [status |-> 200, body |-> [status |-> "awake"]]]]
    /\ UNCHANGED <<tokenCache, now, env, revision, shipments, cards>>

(* ------------------------------ GET /shipment ------------------------- *)
\* values of req.query.order_ref: absent, a string, or an array (the
\* parameter given twice)
QueryArray == [t |-> "array"]
OrderRefInputs ==
    {Undefined, QueryArray, Str(<<>>), Str(<<" ">>), Str(<<" ", "\t">>),
     Str(<<"#", "1">>), Str(<<" ", "#", "1", " ">>)}

\* !order_ref || typeof order_ref !== 'string' || order_ref.trim().length === 0
MutInvalidOrderRefNoTrim(v) ==
    \/ ~ToBoolean(v)
    \/ v.t # "string"

InvalidOrderRef(v) ==
    \/ ~ToBoolean(v)
    \/ v.t # "string"
    \/ Len(Trim(v.s)) = 0

\* updated_at timestamps: a local hour and a UTC offset; new Date(x) is
\* the instant local - tz, so that different strings can name one instant
Dates == [local : {1, 2}, tz : {0, 1}]
DateValue(d) == d.local - d.tz

\* the comparator (a, b) => new Date(b.updated_at) - new Date(a.updated_at)
MutCompareAscending(a, b) == DateValue(a.updated_at) - DateValue(b.updated_at)

Compare(a, b) == DateValue(b.updated_at) - DateValue(a.updated_at)

\* Array.prototype.sort with the comparator above: a stable sort, computed
\* as an insertion sort (x was behind every element of `sorted`)
RECURSIVE Insert(_, _)
Insert(x, sorted) ==
    IF sorted = <<>> THEN <<x>>
    ELSE IF Compare(Head(sorted), x) > 0 THEN <<x>> \o sorted
    ELSE <<Head(sorted)>> \o Insert(x, Tail(sorted))

RECURSIVE Sort(_)
Sort(list) ==
    IF list = <<>> THEN <<>>
    ELSE Insert(list[Len(list)], Sort(SubSeq(list, 1, Len(list) - 1)))

\* shipment lists of the upstream: ids are distinct
ShipmentLists ==
    UNION {[1..n -> Dates] : n \in 0..MaxShipments}
Shipments(f) == [k \in DOMAIN f |-> [id |-> k, updated_at |-> f[k]]]

ArrayOf(items) == [t |-> "array", items |-> items]
Object == [t |-> "object"]

\* JSON bodies of a successful search: data is a list, is missing, or is
\* something that is not a list
SearchPayloads ==
    {[data |-> ArrayOf(Shipments(f))] : f \in ShipmentLists}
        \cup {[data |-> Undefined], [data |-> Object]}

\* if (data.data && Array.isArray(data.data)) data.data.sort(...)
SortedData(data) ==
    IF ToBoolean(data.data) /\ data.data.t = "array"
    THEN [data |-> ArrayOf(Sort(data.data.items))]
    ELSE data

StartSearch(r, order_ref) ==
    /\ req[r].pc = "idle"
    /\ IF InvalidOrderRef(order_ref)
       THEN /\ req' = [req EXCEPT ![r] = [IdleReq EXCEPT !.kind = "search",
                        !.input = order_ref, !.pc = "done",
                        !.res = [status |-> 400,
                                 body |-> [error |-> "Missing or invalid order_ref parameter"]]]]
            /\ UNCHANGED <<tokenCache, now, env, revision, shipments, cards>>
       ELSE Enter(r, "search", order_ref)

\* the detail of a non-success search
SearchErrorDetails(status) ==
    IF status = 404 THEN "No shipments found" ELSE "API request failed"

\* the upstream search answers with a non-success status
MutSearchNotOkAs500(r, status) ==
    /\ req[r].pc = "search"
    /\ ~Ok(status)
    /\ req' = [req EXCEPT ![r] = [@ EXCEPT !.pc = "done",
                !.calls = Settle(req[r].calls, "http_error"),
                !.response = [status |-> status, data |-> Undefined],
                !.res = [status |-> 500,
                         body |-> [error |-> "ShipRelay API error", status |-> status,
                                   details |-> SearchErrorDetails(status)]]]]
    /\ UNCHANGED <<tokenCache, now, env, revision, shipments, cards>>

SearchNotOk(r, status) ==
    /\ req[r].pc = "search"
    /\ ~Ok(status)
    /\ req' = [req EXCEPT ![r] = [@ EXCEPT !.pc = "done",
                !.calls = Settle(req[r].calls, "http_error"),
                !.response = [status |-> status, data |-> Undefined],
                !.res = [status |-> status,
                         body |-> [error |-> "ShipRelay API error", status |-> status,
                                   details |-> SearchErrorDetails(status)]]]]
    /\ UNCHANGED <<tokenCache, now, env, revision, shipments, cards>>

\* the upstream search answers with a success status and a JSON body
SearchOk(r, status, data) ==
    /\ req[r].pc = "search"
    /\ Ok(status)
    /\ req' = [req EXCEPT ![r] = [@ EXCEPT !.pc = "done",
                !.calls = Settle(req[r].calls, "ok"),
                !.response = [status |-> status, data |-> data],
                !.res = [status |-> 200, body |-> SortedData(data)]]]
    /\ UNCHANGED <<tokenCache, now, env, revision, shipments, cards>>

\* the search fetch rejects, or its success body is not JSON
SearchThrows(r, err) ==
    /\ req[r].pc = "search"
    /\ Catch(r, Settle(req[r].calls, "throw"), err)
    /\ UNCHANGED <<tokenCache, now, env, revision, shipments, cards>>

(* ------------------------ cancelShopifyFulfillment -------------------- *)
\* property access on a JS object: a missing property reads undefined
Get(obj, field) == IF field \in DOMAIN obj THEN obj[field] ELSE Undefined

\* the guard that skips the pipeline:
\* !shipmentData?.order_ref || !SHOPIFY_ACCESS_TOKEN || !SHOPIFY_SHOP_DOMAIN
MutSkipPipelineIgnoresDomain(shipmentData) ==
    \/ ~ToBoolean(Get(shipmentData, "order_ref"))
    \/ ~ToBoolean(env.SHOPIFY_ACCESS_TOKEN)

SkipPipeline(shipmentData) ==
    \/ ~ToBoolean(Get(shipmentData, "order_ref"))
    \/ ~ToBoolean(env.SHOPIFY_ACCESS_TOKEN)
    \/ ~ToBoolean(env.SHOPIFY_SHOP_DOMAIN)

\* const orderNumber = shipmentData.order_ref.replace('#', '')
OrderNumber(order_ref) == Str(ReplaceFirst(order_ref.s, "#", <<>>))

\* fulfillment orders (GraphQL) and fulfillments (REST) of an order
FulfillmentOrderStates ==
    [status : {"OPEN", "CANCELLED"},
     requestStatus : {"UNSUBMITTED", "CANCELLATION_REQUESTED"}]
FulfillmentStates == [status : {"success", "cancelled"}]

StatesOf(rev) ==
    IF rev = "graphql" THEN FulfillmentOrderStates ELSE FulfillmentStates

\* the lists an order can carry: ids are distinct
FulfillmentLists(rev) ==
    UNION {[1..n -> StatesOf(rev)] : n \in 0..MaxFulfillments}
WithIds(f) == [k \in DOMAIN f |-> [id |-> k, state |-> f[k]]]

\* the filter of the GraphQL revision:
\* fo.status !== 'CANCELLED' && fo.requestStatus !== 'CANCELLATION_REQUESTED'
\* and of the REST revision: f.status !== 'cancelled'
MutIsActiveStatusOnly(rev, fo) ==
    IF rev = "graphql"
    THEN fo.state.status # "CANCELLED"
    ELSE TRUE

IsActive(rev, fo) ==
    IF rev = "graphql"
    THEN fo.state.status # "CANCELLED"
         /\ fo.state.requestStatus # "CANCELLATION_REQUESTED"
    ELSE fo.state.status # "cancelled"

\* Array.prototype.filter
RECURSIVE Filter(_, _)
Filter(rev, list) ==
    IF list = <<>> THEN <<>>
    ELSE IF IsActive(rev, Head(list))
         THEN <<Head(list)>> \o Filter(rev, Tail(list))
         ELSE Filter(rev, Tail(list))

\* res.status(response.status).json(data)
MutArchiveResultStatus200(response) ==
    [status |-> 200, body |-> JSONParse(response.text).value]

ArchiveResult(response) ==
    [status |-> response.status, body |-> JSONParse(response.text).value]

\* the archive handler responds after the pipeline returned
RespondArchive(r, calls) ==
    req' = [req EXCEPT ![r] = [@ EXCEPT !.pc = "done", !.calls = calls,
                                        !.res = ArchiveResult(req[r].response)]]

\* the pipeline ends without a further call (a guard returned, the loop
\* ran out, or the catch swallowed an error): control returns to the
\* archive handler, which responds
MutPipelineReturnsRethrow(r, result) ==
    /\ IF result = "throw"
       THEN Respond(r, Settle(req[r].calls, result), 500,
                    [error |-> "Invalid response from ShipRelay",
                     raw |-> req[r].response.text])
       ELSE RespondArchive(r, Settle(req[r].calls, result))
    /\ UNCHANGED <<tokenCache, now, env, revision, shipments, cards>>

PipelineReturns(r, result) ==
    /\ RespondArchive(r, Settle(req[r].calls, result))
    /\ UNCHANGED <<tokenCache, now, env, revision, shipments, cards>>

\* the for-loop over the active fulfillments: issue the cancellation of the
\* i-th one, or return when the list is exhausted
CancelFrom(r, calls, order, list, i) ==
    IF i > Len(list)
    THEN /\ req' = [req EXCEPT ![r] = [@ EXCEPT !.pc = "done", !.calls = calls,
                     !.order = order, !.fulfillmentOrders = list, !.i = i,
                     !.res = ArchiveResult(req[r].response)]]
         /\ UNCHANGED <<tokenCache, now, env, revision, shipments, cards>>
    ELSE /\ req' = [req EXCEPT ![r] = [@ EXCEPT !.pc = "cancel",
                     !.calls = Append(calls, Call("cancel", Num(list[i].id))),
                     !.order = order, !.fulfillmentOrders = list, !.i = i]]
         /\ UNCHANGED <<tokenCache, now, env, revision, shipments, cards>>

\* the order lookup fails: fetch rejects or the body is not JSON ("throw"),
\* a non-success status ("http_error"), GraphQL errors ("graphql_errors",
\* GraphQL revision only) or no order found ("empty")
LookupResults(rev) ==
    IF rev = "graphql"
    THEN {"throw", "http_error", "graphql_errors", "empty"}
    ELSE {"throw", "http_error", "empty"}

MutLookupFailsGoesOn(r, result) ==
    /\ req[r].pc = "lookup"
    /\ result \in LookupResults(revision)
    /\ req' = [req EXCEPT ![r] = [@ EXCEPT !.pc = "cancel",
                !.calls = Append(Settle(req[r].calls, result), Call("cancel", Num(1)))]]
    /\ UNCHANGED <<tokenCache, now, env, revision, shipments, cards>>

LookupFails(r, result) ==
    /\ req[r].pc = "lookup"
    /\ result \in LookupResults(revision)
    /\ PipelineReturns(r, result)

\* GraphQL revision: the lookup finds the order with its fulfillment orders
LookupFoundGraphQL(r, f) ==
    /\ req[r].pc = "lookup"
    /\ revision = "graphql"
    /\ CancelFrom(r, Settle(req[r].calls, "ok"), WithIds(f),
                  Filter(revision, WithIds(f)), 1)

\* REST revision: the lookup finds the order, its fulfillments are fetched
LookupFoundREST(r) ==
    /\ req[r].pc = "lookup"
    /\ revision = "rest"
    /\ req' = [req EXCEPT ![r] = [@ EXCEPT !.pc = "enumerate",
                !.calls = Append(Settle(req[r].calls, "ok"), Call("enumerate", Undefined))]]
    /\ UNCHANGED <<tokenCache, now, env, revision, shipments, cards>>

EnumerateFails(r, result) ==
    /\ req[r].pc = "enumerate"
    /\ result \in {"throw", "http_error"}
    /\ PipelineReturns(r, result)

EnumerateOk(r, f) ==
    /\ req[r].pc = "enumerate"
    /\ CancelFrom(r, Settle(req[r].calls, "ok"), WithIds(f),
                  Filter(revision, WithIds(f)), 1)

\* a cancellation call answers: a success status ("ok", whether or not its
\* body reports errors or userErrors) and a non-success status
\* ("http_error") are only logged and the loop goes on
CancelResults == {"ok", "http_error"}

CancelAnswers(r, result) ==
    /\ req[r].pc = "cancel"
    /\ result \in CancelResults
    /\ CancelFrom(r, Settle(req[r].calls, result), req[r].order,
                  req[r].fulfillmentOrders, req[r].i + 1)

\* a cancellation fetch rejects (or its success body is not JSON): the
\* catch around the whole pipeline ends the loop
CancelThrows(r) ==
    /\ req[r].pc = "cancel"
    /\ PipelineReturns(r, "throw")

(* -------------------------- PATCH /shipment/:id/archive --------------- *)
ShipmentIds == {Str(<<"9">>)}

\* shipments as the fetch-by-id returns them
OrderRefs == {Undefined, Str(<<"#", "2">>), Str(<<"2", "#">>)}
ShipmentRecords == [t : {"object"}, order_ref : OrderRefs, status : {"queued", "inactive"}]
\* the body either wraps the shipment in `data` or is the shipment itself
ShipmentJsons ==
    ShipmentRecords \cup {[t |-> "object", data |-> s] : s \in ShipmentRecords}

StartArchive(r, id) ==
    /\ req[r].pc = "idle"
    /\ Enter(r, "archive", id)

IssueArchive(r, result, shipmentData) ==
    /\ req' = [req EXCEPT ![r] = [@ EXCEPT !.pc = "archive",
                !.shipmentData = shipmentData,
                !.calls = Append(Settle(req[r].calls, result), Call("archive", req[r].input))]]
    /\ UNCHANGED <<tokenCache, now, env, revision, shipments, cards>>

\* fetch-by-id answers with a success status:
\* shipmentData = shipmentJson.data || shipmentJson
ShipmentOk(r, shipmentJson) ==
    /\ req[r].pc = "shipment"
    /\ IssueArchive(r, "ok",
                    IF ToBoolean(Get(shipmentJson, "data"))
                    THEN shipmentJson.data ELSE shipmentJson)

\* fetch-by-id answers with a non-success status: shipmentData stays null
MutShipmentNotOkReadsBody(r, status) ==
    /\ req[r].pc = "shipment"
    /\ ~Ok(status)
    /\ IssueArchive(r, "http_error",
                    [t |-> "object", order_ref |-> Str(<<"#", "2">>), status |-> "queued"])

ShipmentNotOk(r, status) ==
    /\ req[r].pc = "shipment"
    /\ ~Ok(status)
    /\ IssueArchive(r, "http_error", Null)

\* the fetch-by-id rejects, or its success body is not JSON
ShipmentThrows(r) ==
    /\ req[r].pc = "shipment"
    /\ Catch(r, Settle(req[r].calls, "throw"), FetchError)
    /\ UNCHANGED <<tokenCache, now, env, revision, shipments, cards>>

\* the archive call answers with `status` and the body `text`
MutArchiveAnswersAlways(r, status, text) ==
    /\ req[r].pc = "archive"
    /\ LET parsed == JSONParse(text)
           calls == Settle(req[r].calls, IF Ok(status) THEN "ok" ELSE "http_error")
           answered == [req EXCEPT ![r] = [@ EXCEPT !.response =
                            [status |-> status, text |-> text]]]
       IN  req' = [answered EXCEPT ![r] = [@ EXCEPT !.pc = "done", !.calls = calls,
                        !.res = [status |-> status, body |-> parsed.value]]]
    /\ UNCHANGED <<tokenCache, now, env, revision, shipments, cards>>

MutArchiveAnswersNoAwait(r, status, text) ==
    /\ req[r].pc = "archive"
    /\ LET parsed == JSONParse(text)
           calls == Settle(req[r].calls, IF Ok(status) THEN "ok" ELSE "http_error")
           answered == [req EXCEPT ![r] = [@ EXCEPT !.response =
                            [status |-> status, text |-> text]]]
           shipmentData == req[r].shipmentData
       IN  IF ~parsed.ok
           THEN req' = [answered EXCEPT ![r] = [@ EXCEPT !.pc = "done", !.calls = calls,
                         !.res = [status |-> 500,
                                  body |-> [error |-> "Invalid response from ShipRelay",
                                            raw |-> text]]]]
           ELSE IF Ok(status) /\ ToBoolean(shipmentData) /\ ~SkipPipeline(shipmentData)
           THEN req' = [answered EXCEPT ![r] = [@ EXCEPT !.pc = "lookup",
                         !.res = ArchiveResult(answered[r].response),
                         !.calls = Append(calls,
                                     Call("lookup", OrderNumber(shipmentData.order_ref)))]]
           ELSE req' = [answered EXCEPT ![r] = [@ EXCEPT !.pc = "done", !.calls = calls,
                         !.res = ArchiveResult(answered[r].response)]]
    /\ UNCHANGED <<tokenCache, now, env, revision, shipments, cards>>

ArchiveAnswers(r, status, text) ==
    /\ req[r].pc = "archive"
    /\ LET parsed == JSONParse(text)
           calls == Settle(req[r].calls, IF Ok(status) THEN "ok" ELSE "http_error")
           answered == [req EXCEPT ![r] = [@ EXCEPT !.response =
                            [status |-> status, text |-> text]]]
           shipmentData == req[r].shipmentData
       IN  IF ~parsed.ok
           THEN req' = [answered EXCEPT ![r] = [@ EXCEPT !.pc = "done", !.calls = calls,
                         !.res = [status |-> 500,
                                  body |-> [error |-> "Invalid response from ShipRelay",
                                            raw |-> text]]]]
           ELSE IF Ok(status) /\ ToBoolean(shipmentData) /\ ~SkipPipeline(shipmentData)
           THEN req' = [answered EXCEPT ![r] = [@ EXCEPT !.pc = "lookup",
                         !.calls = Append(calls,
                                     Call("lookup", OrderNumber(shipmentData.order_ref)))]]
           ELSE req' = [answered EXCEPT ![r] = [@ EXCEPT !.pc = "done", !.calls = calls,
                         !.res = ArchiveResult(answered[r].response)]]
    /\ UNCHANGED <<tokenCache, now, env, revision, shipments, cards>>

\* the archive fetch rejects
ArchiveThrows(r) ==
    /\ req[r].pc = "archive"
    /\ Catch(r, Settle(req[r].calls, "throw"), FetchError)
    /\ UNCHANGED <<tokenCache, now, env, revision, shipments, cards>>

(* ------------------------------ GET /product/:id ---------------------- *)
DecimalDigits == {"0", "1", "7"}
HexDigits == DecimalDigits \cup {"a", "e"}

AllIn(s, chars) == s # <<>> /\ \A k \in 1..Len(s) : s[k] \in chars

\* StrNumericLiteral: a decimal literal with an optional exponent, or a
\* hexadecimal literal
NumericLiteral(s) ==
    \/ AllIn(s, DecimalDigits)
    \/ \E k \in 2..(Len(s) - 1) :
          /\ s[k] = "e"
          /\ AllIn(SubSeq(s, 1, k - 1), DecimalDigits)
          /\ AllIn(SubSeq(s, k + 1, Len(s)), DecimalDigits)
    \/ /\ Len(s) >= 3
       /\ s[1] = "0" /\ s[2] = "x"
       /\ AllIn(SubSeq(s, 3, Len(s)), HexDigits)

\* Number(string) is not NaN: the string is trimmed of white space, and
\* what is left is empty (the number 0) or a numeric literal
IsNumericString(s) ==
    \/ Trim(s) = <<>>
    \/ NumericLiteral(Trim(s))

\* !id || isNaN(id)
InvalidProductId(id) == ~ToBoolean(id) \/ ~IsNumericString(id.s)

ProductIds ==
    {Str(<<"7">>), Str(<<"a">>), Str(<<"7", "a">>), Str(<<"1", "e", "1">>),
     Str(<<"0", "x", "a">>), Str(<<" ">>)}

StartProduct(r, id) ==
    /\ req[r].pc = "idle"
    /\ IF InvalidProductId(id)
       THEN /\ req' = [req EXCEPT ![r] = [IdleReq EXCEPT !.kind = "product",
                        !.input = id, !.pc = "done",
                        !.res = [status |-> 400, body |-> [error |-> "Invalid product ID"]]]]
            /\ UNCHANGED <<tokenCache, now, env, revision, shipments, cards>>
       ELSE Enter(r, "product", id)

ProductNotOk(r, status) ==
    /\ req[r].pc = "product"
    /\ ~Ok(status)
    /\ Respond(r, Settle(req[r].calls, "http_error"), status,
               IF status = 404
               THEN [error |-> "Product not found"]
               ELSE [error |-> "ShipRelay API error",
                     details |-> "Failed to fetch product details"])
    /\ UNCHANGED <<tokenCache, now, env, revision, shipments, cards>>

ProductOk(r, status) ==
    /\ req[r].pc = "product"
    /\ Ok(status)
    /\ Respond(r, Settle(req[r].calls, "ok"), 200, [id |-> req[r].input])
    /\ UNCHANGED <<tokenCache, now, env, revision, shipments, cards>>

ProductThrows(r, err) ==
    /\ req[r].pc = "product"
    /\ Catch(r, Settle(req[r].calls, "throw"), err)
    /\ UNCHANGED <<tokenCache, now, env, revision, shipments, cards>>

(* ------------------ PUT /shipment/:id/hold and /release --------------- *)
StartHoldRelease(r, kind, id) ==
    /\ req[r].pc = "idle"
    /\ kind \in {"hold", "release"}
    /\ Enter(r, kind, id)

HoldReleaseAnswers(r, status, text) ==
    /\ req[r].pc \in {"hold", "release"}
    /\ LET parsed == JSONParse(text)
           calls == Settle(req[r].calls, IF Ok(status) THEN "ok" ELSE "http_error")
           answered == [req EXCEPT ![r] = [@ EXCEPT !.response =
                            [status |-> status, text |-> text]]]
       IN  IF ~parsed.ok
           THEN req' = [answered EXCEPT ![r] = [@ EXCEPT !.pc = "done", !.calls = calls,
                         !.res = [status |-> 500,
                                  body |-> [error |-> "Invalid response from ShipRelay",
                                            raw |-> text]]]]
           ELSE req' = [answered EXCEPT ![r] = [@ EXCEPT !.pc = "done", !.calls = calls,
                         !.res = [status |-> status, body |-> parsed.value]]]
    /\ UNCHANGED <<tokenCache, now, env, revision, shipments, cards>>

HoldReleaseThrows(r) ==
    /\ req[r].pc \in {"hold", "release"}
    /\ Catch(r, Settle(req[r].calls, "throw"), FetchError)
    /\ UNCHANGED <<tokenCache, now, env, revision, shipments, cards>>

(* ------------------------------ environment --------------------------- *)
\* the clock advances
(* ------------------------- assets/iframe.js: cards -------------------- *)
LowerCaseLetters ==
    <<"a", "b", "c", "d", "e", "f", "g", "h", "i", "j", "k", "l", "m",
      "n", "o", "p", "q", "r", "s", "t", "u", "v", "w", "x", "y", "z">>
UpperCaseLetters ==
    <<"A", "B", "C", "D", "E", "F", "G", "H", "I", "J", "K", "L", "M",
      "N", "O", "P", "Q", "R", "S", "T", "U", "V", "W", "X", "Y", "Z">>

\* String.prototype.toLowerCase / toUpperCase, character by character
LowerChar(c) ==
    IF \E k \in 1..26 : UpperCaseLetters[k] = c
    THEN LowerCaseLetters[CHOOSE k \in 1..26 : UpperCaseLetters[k] = c]
    ELSE c
UpperChar(c) ==
    IF \E k \in 1..26 : LowerCaseLetters[k] = c
    THEN UpperCaseLetters[CHOOSE k \in 1..26 : LowerCaseLetters[k] = c]
    ELSE c
ToLowerCase(s) == [k \in DOMAIN s |-> LowerChar(s[k])]
ToUpperCase(s) == [k \in DOMAIN s |-> UpperChar(s[k])]

\* status?.toLowerCase(): undefined when status is null or undefined
OptionalToLowerCase(status) ==
    IF status \in {Null, Undefined} THEN Undefined ELSE Str(ToLowerCase(status.s))

\* the object literal statusColors: its own properties
statusColors ==
       (<<"q", "u", "e", "u", "e", "d">> :> Str(<<"#", "f", "5", "9", "e", "0", "b">>))
    @@ (<<"h", "e", "l", "d">> :> Str(<<"#", "e", "f", "4", "4", "4", "4">>))
    @@ (<<"r", "e", "q", "u", "e", "s", "t", "e", "d">> :> Str(<<"#", "3", "b", "8", "2", "f", "6">>))
    @@ (<<"p", "r", "o", "c", "e", "s", "s", "i", "n", "g">> :> Str(<<"#", "8", "b", "5", "c", "f", "6">>))
    @@ (<<"s", "h", "i", "p", "p", "e", "d">> :> Str(<<"#", "1", "0", "b", "9", "8", "1">>))
    @@ (<<"r", "e", "t", "u", "r", "n", "e", "d">> :> Str(<<"#", "f", "9", "7", "3", "1", "6">>))
    @@ (<<"i", "n", "a", "c", "t", "i", "v", "e">> :> Str(<<"#", "6", "b", "7", "2", "8", "0">>))

Gray == Str(<<"#", "6", "b", "7", "2", "8", "0">>)

\* a property the literal inherits from Object.prototype under a
\* lower-case name; its value is a function
ObjectPrototypeKeys == {<<"c", "o", "n", "s", "t", "r", "u", "c", "t", "o", "r">>}
InheritedFunction == [t |-> "function"]

\* statusColors[key]: an own property, else an inherited one, else
\* undefined (the key undefined names the property "undefined")
GetProperty(key) ==
    IF key = Undefined THEN Undefined
    ELSE IF key.s \in DOMAIN statusColors THEN statusColors[key.s]
    ELSE IF key.s \in ObjectPrototypeKeys THEN InheritedFunction
    ELSE Undefined

\* Array.prototype.includes
Includes(array, v) == \E k \in DOMAIN array : array[k] = v

canArchiveShipment(status) ==
    ~Includes(<<Str(<<"i", "n", "a", "c", "t", "i", "v", "e">>)>>, OptionalToLowerCase(status))

getStatusColor(status) ==
    IF ToBoolean(GetProperty(OptionalToLowerCase(status)))
    THEN GetProperty(OptionalToLowerCase(status))
    ELSE Gray

canEditShipment(status) ==
    Includes(<<Str(<<"q", "u", "e", "u", "e", "d">>), Str(<<"h", "e", "l", "d">>)>>, OptionalToLowerCase(status))

\* the status words a shipment may carry: the seven of the table, one the
\* table does not know, and one that names a property of every object
StatusWords ==
    {<<"q", "u", "e", "u", "e", "d">>, <<"h", "e", "l", "d">>, <<"r", "e", "q", "u", "e", "s", "t", "e", "d">>,
     <<"p", "r", "o", "c", "e", "s", "s", "i", "n", "g">>, <<"s", "h", "i", "p", "p", "e", "d">>,
     <<"r", "e", "t", "u", "r", "n", "e", "d">>, <<"i", "n", "a", "c", "t", "i", "v", "e">>,
     <<"l", "o", "s", "t">>, <<"c", "o", "n", "s", "t", "r", "u", "c", "t", "o", "r">>}

Capitalize(s) == [k \in DOMAIN s |-> IF k = 1 THEN UpperChar(s[k]) ELSE s[k]]

\* shipment.status: a word in lower case, in upper case or capitalized, or
\* no status at all
StatusInputs ==
    {Str(w) : w \in StatusWords}
        \cup {Str(ToUpperCase(w)) : w \in StatusWords}
        \cup {Str(Capitalize(w)) : w \in StatusWords}
        \cup {Undefined, Null}

\* createShipmentCard(shipment, index): what the card shows of the status
createShipmentCard(shipment) ==
    [status |-> shipment.status,
     canArchive |-> canArchiveShipment(shipment.status),
     canEdit |-> canEditShipment(shipment.status),
     statusColor |-> getStatusColor(shipment.status)]

\* shipments.map(createShipmentCard), one card at a time
RenderCard ==
    /\ Len(cards) < Len(shipments)
    /\ cards' = Append(cards, createShipmentCard(shipments[Len(cards) + 1]))
    /\ UNCHANGED <<tokenCache, now, env, revision, req, shipments>>

Tick ==
    /\ now < MaxTime
    /\ now' = now + TickStep
    /\ UNCHANGED <<tokenCache, env, revision, req, shipments, cards>>

\* the response has been written; the slot is free for the next request
Finish(r) ==
    /\ req[r].pc = "done"
    /\ req' = [req EXCEPT ![r] = IdleReq]
    /\ UNCHANGED <<tokenCache, now, env, revision, shipments, cards>>

Credentials == {Undefined, Str(<<"k">>)}

Init ==
    /\ tokenCache = [token |-> Null, expiry |-> Null]
    /\ now = 0
    /\ env \in [SHOPIFY_ACCESS_TOKEN : Credentials, SHOPIFY_SHOP_DOMAIN : Credentials]
    /\ revision \in {"graphql", "rest"}
    /\ req = [r \in Reqs |-> IdleReq]
    /\ shipments = <<>>
    /\ cards = <<>>

\* a request arrives at slot r and its handler starts
Start(r) ==
    \/ Ping(r)
    \/ \E order_ref \in OrderRefInputs : StartSearch(r, order_ref)
    \/ \E id \in ProductIds : StartProduct(r, id)
    \/ \E id \in ShipmentIds : StartArchive(r, id)
    \/ \E id \in ShipmentIds, kind \in {"hold", "release"} : StartHoldRelease(r, kind, id)

\* an upstream call of the request at slot r ends and its handler resumes
Resume(r) ==
        \/ \E tok \in AccessTokens : LoginSucceeds(r, tok)
        \/ \E status \in LoginFailStatuses, errorText \in LoginFailTexts :
               LoginFails(r, status, errorText)
        \/ \E err \in {FetchError, JsonError} : LoginThrows(r, err)
        \/ \E status \in UpstreamStatuses : SearchNotOk(r, status)
        \/ \E status \in UpstreamStatuses, data \in SearchPayloads : SearchOk(r, status, data)
        \/ \E err \in {FetchError, JsonError} : SearchThrows(r, err)
        \/ \E status \in UpstreamStatuses : ProductNotOk(r, status)
        \/ \E status \in UpstreamStatuses : ProductOk(r, status)
        \/ \E err \in {FetchError, JsonError} : ProductThrows(r, err)
        \/ \E shipmentJson \in ShipmentJsons : ShipmentOk(r, shipmentJson)
        \/ \E status \in UpstreamStatuses : ShipmentNotOk(r, status)
        \/ ShipmentThrows(r)
        \/ \E status \in UpstreamStatuses, text \in BodyTexts : ArchiveAnswers(r, status, text)
        \/ ArchiveThrows(r)
        \/ \E result \in LookupResults(revision) : LookupFails(r, result)
        \/ \E f \in FulfillmentLists(revision) : LookupFoundGraphQL(r, f)
        \/ LookupFoundREST(r)
        \/ \E result \in {"throw", "http_error"} : EnumerateFails(r, result)
        \/ \E f \in FulfillmentLists(revision) : EnumerateOk(r, f)
        \/ \E result \in CancelResults : CancelAnswers(r, result)
        \/ CancelThrows(r)
        \/ \E status \in UpstreamStatuses, text \in BodyTexts : HoldReleaseAnswers(r, status, text)
        \/ HoldReleaseThrows(r)
        \/ Finish(r)

\* no other request is being handled, and an arriving request takes the
\* first slot
Alone(r) == r = 1 /\ \A q \in Reqs : req[q].pc = "idle"

\* requests arrive one after another: each is answered before the next
Next ==
    \/ Tick
    \/ \E r \in Reqs : Alone(r) /\ Start(r)
    \/ \E r \in Reqs : Resume(r)

Spec == Init /\ [][Next]_vars

\* every upstream call that is awaited eventually returns or throws: the
\* handler suspended on it is eventually resumed
SpecFair == Init /\ [][Next]_vars /\ \A r \in Reqs : WF_vars(Resume(r))

\* requests handled concurrently: a search may arrive at any free slot
\* while the others are suspended on their upstream calls
InitConcurrent ==
    /\ tokenCache = [token |-> Null, expiry |-> Null]
    /\ now = 0
    /\ env = [SHOPIFY_ACCESS_TOKEN |-> Undefined, SHOPIFY_SHOP_DOMAIN |-> Undefined]
    /\ revision = "graphql"
    /\ req = [r \in Reqs |-> IdleReq]
    /\ shipments = <<>>
    /\ cards = <<>>

NextConcurrent ==
    \/ Tick
    \/ \E r \in Reqs : StartSearch(r, Str(<<"#", "1">>))
    \/ \E r \in Reqs, tok \in AccessTokens : LoginSucceeds(r, tok)
    \/ \E r \in Reqs, status \in LoginFailStatuses, errorText \in LoginFailTexts :
           LoginFails(r, status, errorText)
    \/ \E r \in Reqs : SearchNotOk(r, 404)
    \/ \E r \in Reqs : Finish(r)

SpecConcurrent == InitConcurrent /\ [][NextConcurrent]_vars

\* the widget alone: a search has returned up to MaxCards shipments with
\* any statuses, and their cards are rendered
InitWidget ==
    /\ tokenCache = [token |-> Null, expiry |-> Null]
    /\ now = 0
    /\ env = [SHOPIFY_ACCESS_TOKEN |-> Undefined, SHOPIFY_SHOP_DOMAIN |-> Undefined]
    /\ revision = "graphql"
    /\ req = [r \in Reqs |-> IdleReq]
    /\ shipments \in UNION {[1..n -> [status : StatusInputs]] : n \in 0..MaxCards}
    /\ cards = <<>>

NextWidget == RenderCard

SpecWidget == InitWidget /\ [][NextWidget]_vars

(* ====================================================================== *)
(* Properties                                                              *)
(* ====================================================================== *)
CommerceOps == {"lookup", "enumerate", "cancel"}

\* positions of the calls of request r that satisfy P
CallsWhere(r, P(_)) == {k \in 1..Len(req[r].calls) : P(req[r].calls[k])}
IsCommerce(c) == c.op \in CommerceOps
IsLogin(c) == c.op = "login"
IsLookup(c) == c.op = "lookup"
IsArchiveCall(c) == c.op = "archive"

Responded(r) == req[r].pc = "done"
\* the upstream archive / hold / release call of request r returned a response
Answered(r) ==
    /\ req[r].kind \in {"archive", "hold", "release"}
    /\ req[r].response # NoResponse

NotJsonTexts == {<<>>, <<"<", "h", ">">>}
JsonObjectText == <<"{", "}">>

(* ---------------------------------- C1 --------------------------------- *)
\* C1 as stated: whenever the upstream archive call returned a response,
\* the archive call was forwarded and the proxy's status is the upstream
\* archive status.
C1_StatusAlwaysPassedThrough ==
    \A r \in Reqs :
        (Responded(r) /\ req[r].kind = "archive" /\ Answered(r))
            => /\ CallsWhere(r, IsArchiveCall) # {}
               /\ req[r].res.status = req[r].response.status

\* C1 amended: whenever the upstream archive call returned a response whose
\* body is valid JSON, whatever the shipment's status, the archive call was
\* forwarded and the proxy's status is the upstream archive status.
C1_JsonStatusPassedThrough ==
    \A r \in Reqs :
        (Responded(r) /\ req[r].kind = "archive" /\ Answered(r)
            /\ JSONParse(req[r].response.text).ok)
            => /\ CallsWhere(r, IsArchiveCall) # {}
               /\ req[r].res.status = req[r].response.status

\* an inactive shipment was archived and the upstream 404 was passed on
C1_Witness ==
    \E r \in Reqs :
        /\ Responded(r) /\ req[r].kind = "archive" /\ Answered(r)
        /\ req[r].response.text = JsonObjectText
        /\ Get(req[r].shipmentData, "status") = "inactive"
        /\ req[r].response.status = 404
        /\ req[r].res.status = 404

(* ---------------------------------- C2 --------------------------------- *)
\* C2: whatever the commerce-platform calls of the pipeline did, the archive
\* endpoint answers with the upstream archive status and parsed body.
C2_PipelineNeverChangesResponse ==
    \A r \in Reqs :
        (Responded(r) /\ req[r].kind = "archive" /\ CallsWhere(r, IsCommerce) # {})
            => /\ req[r].res.status = req[r].response.status
               /\ req[r].res.body = JSONParse(req[r].response.text).value

\* a pipeline in which one cancellation was refused and the next one threw
C2_Witness ==
    \E r \in Reqs :
        /\ Responded(r) /\ req[r].kind = "archive"
        /\ \E k \in 1..(Len(req[r].calls) - 1) :
              /\ req[r].calls[k].op = "cancel"
              /\ req[r].calls[k].result = "http_error"
              /\ req[r].calls[k + 1].op = "cancel"
              /\ req[r].calls[k + 1].result = "throw"
        /\ req[r].res.status = 200

(* ---------------------------------- C3 --------------------------------- *)
\* the three conditions of C3 for request r
ArchiveSucceeded(r) ==
    \E k \in CallsWhere(r, IsArchiveCall) : req[r].calls[k].result = "ok"
CredentialsConfigured ==
    /\ env.SHOPIFY_ACCESS_TOKEN # Undefined
    /\ env.SHOPIFY_SHOP_DOMAIN # Undefined
HasOrderRef(r) ==
    /\ req[r].shipmentData # Null
    /\ req[r].shipmentData.order_ref # Undefined
PipelineConditions(r) ==
    ArchiveSucceeded(r) /\ CredentialsConfigured /\ HasOrderRef(r)

\* commerce calls are made only under the three conditions and only after
\* the archive call returned
CommerceOnlyIf(r) ==
    \A k \in CallsWhere(r, IsCommerce) :
        /\ req[r].kind = "archive"
        /\ PipelineConditions(r)
        /\ \E a \in CallsWhere(r, IsArchiveCall) : a < k

\* C3 as stated: commerce calls only under the three conditions; when one of
\* them fails, no commerce call is made and the response status is the
\* upstream archive status.
C3_SkippedPipelineStatusPassedThrough ==
    \A r \in Reqs :
        /\ CommerceOnlyIf(r)
        /\ (Responded(r) /\ req[r].kind = "archive" /\ Answered(r)
                /\ ~PipelineConditions(r))
            => /\ CallsWhere(r, IsCommerce) = {}
               /\ req[r].res.status = req[r].response.status

\* C3 amended: commerce calls only under the three conditions; when one of
\* them fails, no commerce call is made and, if the archive body is valid
\* JSON, the response status is the upstream archive status.
C3_CommerceCallsOnlyWhenConfigured ==
    \A r \in Reqs :
        /\ CommerceOnlyIf(r)
        /\ (Responded(r) /\ req[r].kind = "archive" /\ Answered(r)
                /\ ~PipelineConditions(r))
            => /\ CallsWhere(r, IsCommerce) = {}
               /\ (JSONParse(req[r].response.text).ok
                      => req[r].res.status = req[r].response.status)

\* archive succeeded for a shipment with an order_ref, but one credential
\* is missing: no commerce call, status 200
C3_Witness ==
    \E r \in Reqs :
        /\ Responded(r) /\ req[r].kind = "archive" /\ Answered(r)
        /\ ArchiveSucceeded(r) /\ HasOrderRef(r)
        /\ env.SHOPIFY_ACCESS_TOKEN # Undefined
        /\ env.SHOPIFY_SHOP_DOMAIN = Undefined
        /\ CallsWhere(r, IsCommerce) = {}
        /\ req[r].res.status = 200

(* ---------------------------------- C4 --------------------------------- *)
\* a fulfillment (order) that is not cancelled / cancellation-requested
NotCancelled(fo) ==
    IF revision = "graphql"
    THEN fo.state.status # "CANCELLED" /\ fo.state.requestStatus # "CANCELLATION_REQUESTED"
    ELSE fo.state.status # "cancelled"

CancelCallsFor(r, id) ==
    {k \in 1..Len(req[r].calls) :
        req[r].calls[k].op = "cancel" /\ req[r].calls[k].arg = Num(id)}

\* the pipeline of request r ran to its end and none of its calls failed
PipelineRanClean(r) ==
    /\ Responded(r) /\ req[r].kind = "archive"
    /\ CallsWhere(r, IsLookup) # {}
    /\ \A k \in CallsWhere(r, IsCommerce) : req[r].calls[k].result = "ok"

TokenStored ==
    /\ tokenCache.token.t = "string"
    /\ tokenCache.token.s # <<>>
    /\ tokenCache.expiry.t = "number"

\* in this step the handler of request r calls getShipRelayToken
CallsGetToken(r) ==
    /\ req[r].pc = "idle"
    /\ req'[r].pc \notin {"idle", "done"}

\* C5: a getShipRelayToken call made strictly before the stored expiry
\* returns the stored token, makes no login call and leaves the cache alone.
C5_CachedTokenReused ==
    [][\A r \in Reqs :
          (CallsGetToken(r) /\ TokenStored /\ now < tokenCache.expiry.n)
              => /\ req'[r].token = tokenCache.token
                 /\ \A k \in 1..Len(req'[r].calls) : req'[r].calls[k].op # "login"
                 /\ tokenCache' = tokenCache]_vars

\* 25 minutes after a login at time 0 a request runs on the cached token
\* without a login call
C5_Witness ==
    \E r \in Reqs :
        /\ req[r].pc \notin {"idle", "done", "login"}
        /\ now = 25 * 60 * 1000
        /\ tokenCache.expiry = Num(50 * 60 * 1000)
        /\ req[r].token = tokenCache.token
        /\ tokenCache.token = Str(<<"B">>)
        /\ CallsWhere(r, IsLogin) = {}

(* ---------------------------------- C6 --------------------------------- *)
\* the cache is empty, or the time is at or after the stored expiry
CacheEmptyOrExpired ==
    \/ ~(tokenCache.token.t = "string" /\ tokenCache.token.s # <<>>)
    \/ tokenCache.expiry.t # "number"
    \/ now >= tokenCache.expiry.n

\* in this step the login call of request r returns a success
LoginReturnsSuccess(r) ==
    /\ req[r].pc = "login"
    /\ req'[r].pc \notin {"login", "done"}

\* C6: a getShipRelayToken call made with an empty or expired cache makes
\* exactly one login call; when it succeeds the cache holds the token the
\* call returns and expiry = Date.now() + 50 minutes.
C6_OneLoginWhenEmptyOrExpired ==
    [][\A r \in Reqs :
          /\ (CallsGetToken(r) /\ CacheEmptyOrExpired)
                => /\ req'[r].pc = "login"
                   /\ req'[r].calls = <<Call("login", Undefined)>>
          /\ LoginReturnsSuccess(r)
                => /\ tokenCache'.token = req'[r].token
                   /\ tokenCache'.expiry = Num(now + 50 * 60 * 1000)
                   /\ req'[r].calls[1] = [op |-> "login", arg |-> Undefined, result |-> "ok"]
          /\ Cardinality({k \in 1..Len(req'[r].calls) : req'[r].calls[k].op = "login"}) <= 1
      ]_vars

\* exactly at the expiry of a token cached at time 0 a request logged in
\* again and the cache now expires 50 minutes later
C6_Witness ==
    \E r \in Reqs :
        /\ now = 50 * 60 * 1000
        /\ req[r].pc \notin {"idle", "done", "login"}
        /\ Cardinality(CallsWhere(r, IsLogin)) = 1
        /\ req[r].token = tokenCache.token
        /\ tokenCache.expiry = Num(100 * 60 * 1000)

(* ---------------------------------- C7 --------------------------------- *)
\* order_ref is missing, empty or only whitespace
BlankOrderRef(v) ==
    \/ v = Undefined
    \/ v.t = "string" /\ \A k \in 1..Len(v.s) : v.s[k] \in {" ", "\t"}

\* C7: a search whose order_ref is missing, empty or whitespace is answered
\* 400 without any upstream call.
C7_BlankOrderRefRejected ==
    \A r \in Reqs :
        (req[r].kind = "search" /\ BlankOrderRef(req[r].input))
            => /\ Responded(r)
               /\ req[r].res.status = 400
               /\ req[r].calls = <<>>

C7_Witness ==
    \E r \in Reqs :
        /\ req[r].kind = "search"
        /\ req[r].input = Str(<<" ", "\t">>)
        /\ req[r].res.status = 400
        /\ req[r].calls = <<>>

(* ---------------------------------- C8 --------------------------------- *)
\* the search of request r succeeded upstream with a list in `data`
SearchReturnedList(r) ==
    /\ Responded(r) /\ req[r].kind = "search"
    /\ req[r].calls # <<>>
    /\ req[r].calls[Len(req[r].calls)].result = "ok"
    /\ req[r].response.data.data.t = "array"

IsPermutation(a, b) ==
    /\ Len(a) = Len(b)
    /\ \A x \in {a[k] : k \in 1..Len(a)} \cup {b[k] : k \in 1..Len(b)} :
          Cardinality({k \in 1..Len(a) : a[k] = x})
              = Cardinality({k \in 1..Len(b) : b[k] = x})

\* C8: the list GET /shipment returns is a permutation of the upstream list
\* with updated_at non-increasing.
C8_SearchSortedDescending ==
    \A r \in Reqs :
        SearchReturnedList(r)
            => LET up == req[r].response.data.data.items
                   out == req[r].res.body.data.items
               IN  /\ req[r].res.status = 200
                   /\ IsPermutation(up, out)
                   /\ \A i, j \in 1..Len(out) :
                         i < j => DateValue(out[i].updated_at) >= DateValue(out[j].updated_at)

\* an upstream list in ascending order was reversed
C8_Witness ==
    \E r \in Reqs :
        /\ SearchReturnedList(r)
        /\ Len(req[r].response.data.data.items) = 2
        /\ DateValue(req[r].response.data.data.items[1].updated_at)
              < DateValue(req[r].response.data.data.items[2].updated_at)
        /\ req[r].res.body.data.items[1].id = 2
        /\ req[r].res.body.data.items[2].id = 1

(* ---------------------------------- C9 --------------------------------- *)
\* the search of request r got a non-success status from the upstream
SearchRefused(r) ==
    /\ Responded(r) /\ req[r].kind = "search"
    /\ req[r].calls # <<>>
    /\ req[r].calls[Len(req[r].calls)] =
          [op |-> "search", arg |-> Str(Trim(req[r].input.s)), result |-> "http_error"]

\* C9: a non-success upstream status is the status of GET /shipment, with
\* the detail 'No shipments found' exactly for 404 and 'API request failed'
\* otherwise.
C9_SearchErrorStatusPassedThrough ==
    \A r \in Reqs :
        SearchRefused(r)
            => /\ req[r].res.status = req[r].response.status
               /\ ~Ok(req[r].res.status)
               /\ (req[r].res.body.details = "No shipments found")
                     <=> (req[r].response.status = 404)
               /\ req[r].response.status # 404
                     => req[r].res.body.details = "API request failed"

C9_Witness ==
    \E r \in Reqs :
        /\ SearchRefused(r)
        /\ req[r].response.status = 503
        /\ req[r].res.status = 503
        /\ req[r].res.body.details = "API request failed"

(* ---------------------------------- C10 -------------------------------- *)
\* C10: a hold, release or archive call whose upstream body is not valid
\* JSON is answered 500 with the raw text, whatever the upstream status,
\* and no commerce-platform call is made.
C10_NonJsonBodyIs500WithRaw ==
    \A r \in Reqs :
        (Responded(r) /\ Answered(r) /\ req[r].response.text \in NotJsonTexts)
            => /\ req[r].res.status = 500
               /\ req[r].res.body.raw = req[r].response.text
               /\ CallsWhere(r, IsCommerce) = {}

\* archive succeeded upstream with an HTML body for a shipment the pipeline
\* would have run for
C10_Witness ==
    \E r \in Reqs :
        /\ Responded(r) /\ req[r].kind = "archive" /\ Answered(r)
        /\ req[r].response = [status |-> 200, text |-> <<"<", "h", ">">>]
        /\ PipelineConditions(r)
        /\ req[r].res.status = 500
        /\ req[r].res.body.raw = <<"<", "h", ">">>

(* ---------------------------------- C11 -------------------------------- *)
\* the login call of request r answered with a non-success status
LoginRefused(r) ==
    \E k \in DOMAIN req[r].calls :
        req[r].calls[k].op = "login" /\ req[r].calls[k].result = "http_error"

\* C11: when the login answers a non-success status, getToken fails with an
\* error that carries the status and the body of that answer, the endpoint
\* responds 500 (with the error as details where its catch reports them),
\* and the login stays the request's only upstream call.
C11_FailedLoginIs500AndLastCall ==
    \A r \in Reqs :
        LoginRefused(r)
            => /\ Responded(r)
               /\ req[r].res.status = 500
               /\ req[r].loginResponse.status \in LoginFailStatuses
               /\ req[r].err.status = req[r].loginResponse.status
               /\ req[r].err.errorText = req[r].loginResponse.body
               /\ req[r].kind \in {"search", "product"}
                     => req[r].res.body.details = req[r].err
               /\ Len(req[r].calls) = 1

\* an archive request whose login was answered 503 with a body
C11_Witness ==
    \E r \in Reqs :
        /\ req[r].kind = "archive"
        /\ LoginRefused(r)
        /\ req[r].loginResponse = [status |-> 503, body |-> <<"d">>]
        /\ req[r].res.status = 500

(* ---------------------------------- C12 -------------------------------- *)
\* C12: a product request whose id is not numeric (not a numeric literal)
\* is answered 400 and makes no upstream call, the login included.
C12_NonNumericIdRejected ==
    \A r \in Reqs :
        (req[r].kind = "product" /\ ~NumericLiteral(req[r].input.s))
            => /\ Responded(r)
               /\ req[r].res.status = 400
               /\ req[r].calls = <<>>

(* ---------------------------------- C13 -------------------------------- *)
\* C13: for every status, in any letter case or absent, the card's colour
\* is the table colour of the lower-cased status and gray when the table
\* does not have it or the status is absent; canArchive is false exactly
\* for 'inactive'; canEdit is true exactly for 'queued' and 'held'.
C13_CardFollowsLowerCasedStatus ==
    \A k \in DOMAIN cards :
        LET low == OptionalToLowerCase(cards[k].status)
            known == low # Undefined /\ low.s \in DOMAIN statusColors
        IN  /\ cards[k].statusColor = IF known THEN statusColors[low.s] ELSE Gray
            /\ cards[k].canArchive = (low # Str(<<"i", "n", "a", "c", "t", "i", "v", "e">>))
            /\ cards[k].canEdit = (low \in {Str(<<"q", "u", "e", "u", "e", "d">>), Str(<<"h", "e", "l", "d">>)})

(* ---------------------------------- C14 -------------------------------- *)
\* a cache field holds no value
Absent(v) == v \in {Null, Undefined}

\* C14: in every reachable state the cached token and its expiry are both
\* absent or both present.
C14_TokenAndExpiryTogether ==
    Absent(tokenCache.token) <=> Absent(tokenCache.expiry)

(* ---------------------------------- C15 -------------------------------- *)
\* in this step the handler of request r gets its token from getShipRelayToken
GetsToken(r) ==
    /\ req[r].pc \in {"idle", "login"}
    /\ req'[r].pc \notin {"idle", "login", "done"}

\* C15: with requests in getShipRelayToken concurrently, every change of the
\* cache is made by one returning login and writes both that login's token
\* and the expiry of that same return; every caller gets the token its own
\* login returned, or the token that was in the cache when it looked.
C15_CacheWrittenByOneLogin ==
    [][/\ tokenCache' # tokenCache
            => \E r \in Reqs :
                  /\ LoginReturnsSuccess(r)
                  /\ tokenCache'.token = req'[r].loginResponse.body.access_token
                  /\ tokenCache'.expiry = Num(now + TokenLifetime)
       /\ \A r \in Reqs :
            GetsToken(r)
                => \/ /\ req[r].pc = "login"
                      /\ req'[r].loginResponse.status = 200
                      /\ req'[r].token = req'[r].loginResponse.body.access_token
                   \/ /\ req[r].pc = "idle"
                      /\ TokenStored
                      /\ req'[r].token = tokenCache.token
      ]_vars

\* two logins were in flight together and returned different tokens at
\* different times: one caller holds A, the cache holds B with the expiry
\* of the later return
C15_Witness ==
    \E r, q \in Reqs :
        /\ req[r].pc = "search" /\ req[q].pc = "search"
        /\ req[r].loginResponse = [status |-> 200, body |-> [access_token |-> Str(<<"A">>)]]
        /\ req[q].loginResponse = [status |-> 200, body |-> [access_token |-> Str(<<"B">>)]]
        /\ req[r].token = Str(<<"A">>)
        /\ tokenCache = [token |-> Str(<<"B">>), expiry |-> Num(TickStep + TokenLifetime)]

(* ---------------------------------- C16 -------------------------------- *)
\* the login calls in flight
PendingLogins ==
    {r \in Reqs : \E k \in DOMAIN req[r].calls :
                     req[r].calls[k] = [op |-> "login", arg |-> Undefined,
                                        result |-> "pending"]}

\* C16: a request that finds the cache empty or expired issues a login call
\* of its own, however many login calls are already in flight.
C16_EveryCallerLogsIn ==
    [][\A r \in Reqs :
          (CallsGetToken(r) /\ CacheEmptyOrExpired)
              => /\ r \notin PendingLogins
                 /\ PendingLogins' = PendingLogins \cup {r}]_vars

\* every request slot is suspended on a login call of its own
C16_Witness ==
    /\ PendingLogins = Reqs
    /\ \A r \in Reqs : req[r].pc = "login"

(* ---------------------------------- C17 -------------------------------- *)
\* C17: the cache changes only in a step where a login returns success
\* inside getShipRelayToken, and no step makes a present token or a
\* present expiry absent again.
C17_CacheChangesOnlyOnLoginSuccess ==
    [][/\ tokenCache' # tokenCache => \E r \in Reqs : LoginReturnsSuccess(r)
       /\ ~Absent(tokenCache.token) => ~Absent(tokenCache'.token)
       /\ ~Absent(tokenCache.expiry) => ~Absent(tokenCache'.expiry)]_vars

(* ---------------------------------- C18 -------------------------------- *)
\* the pipeline of request r has ended after starting its cancellations
CancellationsEnded(r) ==
    /\ Responded(r) /\ req[r].kind = "archive"
    /\ \E k \in DOMAIN req[r].calls : req[r].calls[k].op = "cancel"

\* C18: once a pipeline has started its cancellations, a cancellation call
\* is issued for every fulfillment (order) that is not cancelled, whether
\* or not an earlier cancellation was refused or threw.
C18_FailedCancellationDoesNotStopTheRest ==
    \A r \in Reqs :
        CancellationsEnded(r)
            => \A k \in 1..Len(req[r].order) :
                  NotCancelled(req[r].order[k])
                      => CancelCallsFor(r, req[r].order[k].id) # {}

(* ---------------------------------- C19 -------------------------------- *)
\* call k of request r is an order lookup that failed or found no order, or
\* a fulfillment enumeration that failed
PipelineStopsAt(r, k) ==
    \/ /\ req[r].calls[k].op = "lookup"
       /\ req[r].calls[k].result \in {"throw", "http_error", "graphql_errors", "empty"}
    \/ /\ req[r].calls[k].op = "enumerate"
       /\ req[r].calls[k].result \in {"throw", "http_error"}

\* C19: after an order lookup that failed or found no order, no enumeration
\* and no cancellation call is made; after a failed enumeration, no
\* cancellation call is made; and the pipeline returns to the archive
\* handler without an error: the handler answers the upstream archive
\* status and its catch is not entered.
C19_FailedLookupEndsPipelineQuietly ==
    \A r \in Reqs :
        \A k \in DOMAIN req[r].calls :
            PipelineStopsAt(r, k)
                => /\ k = Len(req[r].calls)
                   /\ Responded(r)
                   /\ req[r].res.status = req[r].response.status
                   /\ req[r].err = Undefined

\* an archive whose order lookup threw, answered 200
C19_Witness ==
    \E r \in Reqs :
        /\ Responded(r) /\ req[r].kind = "archive"
        /\ \E k \in DOMAIN req[r].calls :
              /\ k = Len(req[r].calls)
              /\ req[r].calls[k] = [op |-> "lookup", arg |-> Str(<<"2">>),
                                    result |-> "throw"]
        /\ req[r].res.status = 200
        /\ req[r].err = Undefined

(* ---------------------------------- C20 -------------------------------- *)
\* order_ref without its leading '#', if it has one
WithoutLeadingMarker(s) ==
    IF s # <<>> /\ Head(s) = "#" THEN Tail(s) ELSE s

\* C20: the order number of every order lookup is the shipment's order_ref
\* with one leading '#' removed when it begins with '#', and the order_ref
\* unchanged when it does not.
C20_OrderNumberDropsLeadingMarker ==
    \A r \in Reqs :
        \A k \in DOMAIN req[r].calls :
            req[r].calls[k].op = "lookup"
                => req[r].calls[k].arg
                     = Str(WithoutLeadingMarker(req[r].shipmentData.order_ref.s))

(* ---------------------------------- C21 -------------------------------- *)
\* the place of an upstream call in an archive request
Stage(op) ==
    CASE op = "login" -> 0
      [] op = "shipment" -> 1
      [] op = "archive" -> 2
      [] OTHER -> 3

\* the response of request r has been sent
ResponseSent(r) == req[r].res.status # 0

\* C21: in an archive request the fetch-by-id comes before the archive
\* call, the archive call before every commerce-platform call, each call
\* is issued only when the one before it has ended, and the response is
\* sent only when no call is outstanding.
C21_ArchiveEventsInOrder ==
    \A r \in Reqs :
        req[r].kind = "archive"
            => /\ \A j, k \in DOMAIN req[r].calls :
                     j < k => /\ Stage(req[r].calls[j].op) <= Stage(req[r].calls[k].op)
                              /\ Stage(req[r].calls[k].op) < 3
                                    => Stage(req[r].calls[j].op) < Stage(req[r].calls[k].op)
                              /\ req[r].calls[j].result # "pending"
               /\ \A k \in DOMAIN req[r].calls :
                     /\ req[r].calls[k].op = "archive"
                           => \E j \in 1..(k - 1) : req[r].calls[j].op = "shipment"
                     /\ IsCommerce(req[r].calls[k])
                           => \E j \in 1..(k - 1) : req[r].calls[j].op = "archive"
               /\ ResponseSent(r)
                     => /\ Responded(r)
                        /\ \A k \in DOMAIN req[r].calls :
                              req[r].calls[k].result # "pending"

\* an archive answered 200 after its login, fetch-by-id, archive call,
\* order lookup and two cancellations, the second of which was refused
C21_Witness ==
    \E r \in Reqs :
        /\ req[r].kind = "archive" /\ Responded(r)
        /\ Len(req[r].calls) = 6
        /\ [k \in 1..6 |-> req[r].calls[k].op]
              = <<"login", "shipment", "archive", "lookup", "cancel", "cancel">>
        /\ req[r].calls[6].result = "http_error"
        /\ req[r].res.status = 200

(* ---------------------------------- C22 -------------------------------- *)
\* the fetch-by-id of request r answered with a non-success status
ShipmentRefused(r) ==
    \E k \in DOMAIN req[r].calls :
        req[r].calls[k].op = "shipment" /\ req[r].calls[k].result = "http_error"

\* the archive call is the one issued right after the fetch-by-id
ArchiveFollowsShipment(r) ==
    \E k \in DOMAIN req[r].calls :
        /\ req[r].calls[k].op = "shipment"
        /\ k + 1 \in DOMAIN req[r].calls
        /\ req[r].calls[k + 1].op = "archive"

\* C22: after a fetch-by-id that answered a non-success status the archive
\* call is still issued, no commerce-platform call is made, and the
\* response carries the status of the archive call whenever that call
\* answered.
C22_RefusedFetchStatusPassedThrough ==
    \A r \in Reqs :
        ShipmentRefused(r)
            => /\ ArchiveFollowsShipment(r)
               /\ CallsWhere(r, IsCommerce) = {}
               /\ (Responded(r) /\ Answered(r))
                     => req[r].res.status = req[r].response.status

\* C22 amended: as above, but the response carries the status of the
\* archive call when that call's body is valid JSON; a body that is not
\* JSON is answered 500.
C22_RefusedFetchSkipsPipeline ==
    \A r \in Reqs :
        ShipmentRefused(r)
            => /\ ArchiveFollowsShipment(r)
               /\ CallsWhere(r, IsCommerce) = {}
               /\ (Responded(r) /\ Answered(r))
                     => req[r].res.status
                          = IF JSONParse(req[r].response.text).ok
                            THEN req[r].response.status ELSE 500

\* the fetch-by-id answered non-success, the archive call answered 200
\* with a JSON body and both credentials are set: answered 200 with no
\* commerce-platform call
C22_Witness ==
    \E r \in Reqs :
        /\ req[r].kind = "archive" /\ Responded(r)
        /\ ShipmentRefused(r)
        /\ req[r].response = [status |-> 200, text |-> <<"{", "}">>]
        /\ CredentialsConfigured
        /\ CallsWhere(r, IsCommerce) = {}
        /\ req[r].res.status = 200

(* ---------------------------------- C23 -------------------------------- *)
\* the handler of request r is running: it is suspended on an upstream call
Running(r) == req[r].pc \notin {"idle", "done"}

\* C23: when every awaited upstream call eventually returns or throws,
\* every search, product and archive request that is running is eventually
\* answered; a response is sent exactly when the handler ends, and an
\* answered request is never answered again.
C23_EveryRequestAnsweredOnce ==
    /\ \A r \in Reqs :
          (Running(r) /\ req[r].kind \in {"search", "product", "archive"})
              ~> Responded(r)
    /\ [](\A r \in Reqs : ResponseSent(r) <=> Responded(r))
    /\ [][\A r \in Reqs :
             Responded(r) => (req'[r] = req[r] \/ req'[r] = IdleReq)]_vars

\* a product request answered 200 after its login and its product call
C23_Witness ==
    \E r \in Reqs :
        /\ req[r].kind = "product" /\ Responded(r)
        /\ [k \in DOMAIN req[r].calls |-> req[r].calls[k].op] = <<"login", "product">>
        /\ req[r].res.status = 200

====
